---- MODULE Spec2Model ----
(***************************************************************************)
(* BiblioDrift backend: the request handlers of app.py and the helper      *)
(* functions of ai_service.py, with the optional mood_analysis package as  *)
(* an external collaborator whose calls may succeed or raise.              *)
(*                                                                         *)
(* Text is a sequence of one-character strings, so that len(), lower() and *)
(* the substring test `in` are computed on the characters.  JSON values    *)
(* are texts (the handlers' fields are str); a JSON body is an object or   *)
(* null.  An analyzer that raises, raises an instance of Exception.        *)
(***************************************************************************)
EXTENDS Integers, Sequences, FiniteSets, TLC

VARIABLES
    app_MOOD_ANALYSIS_AVAILABLE,  \* app.py's module-level flag
    ai_MOOD_ANALYSIS_AVAILABLE,   \* ai_service.py's module-level flag
    phase,                        \* "idle" | "responded"
    request,                      \* the request being answered
    response,                     \* the answer of the handler
    calls                         \* the calls made while handling it, in order:
                                  \* into ai_service.py and into the analyzer

vars == <<app_MOOD_ANALYSIS_AVAILABLE, ai_MOOD_ANALYSIS_AVAILABLE, phase,
          request, response, calls>>

flags == <<app_MOOD_ANALYSIS_AVAILABLE, ai_MOOD_ANALYSIS_AVAILABLE>>

-----------------------------------------------------------------------------
(* Bounds of the model *)

\* A description is a concatenation of at most this many chunks.
MaxDescChunks == 3
\* A query is a concatenation of at most this many chunks.
MaxQueryChunks == 2
-----------------------------------------------------------------------------
(* Program constants *)

\* len(description) > 200
LONG_DESCRIPTION == 200
\* len(description) > 100
MEDIUM_DESCRIPTION == 100

\* "A deep, complex narrative that readers find emotionally resonant."
DEEP_PHRASE ==
    <<"A"," ","d","e","e","p",","," ","c","o","m","p","l","e","x"," ","n","a","r","r","a","t","i","v","e"," ","t","h","a","t"," ","r","e","a","d","e","r","s"," ","f","i","n","d"," ","e","m","o","t","i","o","n","a","l","l","y"," ","r","e","s","o","n","a","n","t",".">>
\* "A compelling story with layers waiting to be discovered."
COMPELLING_PHRASE ==
    <<"A"," ","c","o","m","p","e","l","l","i","n","g"," ","s","t","o","r","y"," ","w","i","t","h"," ","l","a","y","e","r","s"," ","w","a","i","t","i","n","g"," ","t","o"," ","b","e"," ","d","i","s","c","o","v","e","r","e","d",".">>
\* "A mysterious tale that will keep you guessing."
MYSTERY_PHRASE ==
    <<"A"," ","m","y","s","t","e","r","i","o","u","s"," ","t","a","l","e"," ","t","h","a","t"," ","w","i","l","l"," ","k","e","e","p"," ","y","o","u"," ","g","u","e","s","s","i","n","g",".">>
\* "A heartwarming story perfect for cozy reading."
ROMANCE_PHRASE ==
    <<"A"," ","h","e","a","r","t","w","a","r","m","i","n","g"," ","s","t","o","r","y"," ","p","e","r","f","e","c","t"," ","f","o","r"," ","c","o","z","y"," ","r","e","a","d","i","n","g",".">>
\* "A delightful read for any quiet moment."
DEFAULT_PHRASE ==
    <<"A"," ","d","e","l","i","g","h","t","f","u","l"," ","r","e","a","d"," ","f","o","r"," ","a","n","y"," ","q","u","i","e","t"," ","m","o","m","e","n","t",".">>

\* "mystery", "romance": the keywords of the description heuristic
kw_mystery == <<"m","y","s","t","e","r","y">>
kw_romance == <<"r","o","m","a","n","c","e">>

\* The dict mood_queries, in its declared (= iteration) order.
mood_queries == <<
    [mood |-> <<"c","o","z","y">>,
     book_query |-> <<"c","o","m","f","o","r","t"," ","r","e","a","d","s"," ","w","a","r","m"," ","a","t","m","o","s","p","h","e","r","e">>],
    [mood |-> <<"d","a","r","k">>,
     book_query |-> <<"p","s","y","c","h","o","l","o","g","i","c","a","l"," ","t","h","r","i","l","l","e","r"," ","m","y","s","t","e","r","y">>],
    [mood |-> <<"r","o","m","a","n","t","i","c">>,
     book_query |-> <<"r","o","m","a","n","c","e"," ","l","o","v","e"," ","s","t","o","r","y">>],
    [mood |-> <<"m","y","s","t","e","r","i","o","u","s">>,
     book_query |-> <<"m","y","s","t","e","r","y"," ","s","u","s","p","e","n","s","e"," ","t","h","r","i","l","l","e","r">>],
    [mood |-> <<"u","p","l","i","f","t","i","n","g">>,
     book_query |-> <<"i","n","s","p","i","r","i","n","g"," ","h","o","p","e","f","u","l"," ","p","o","s","i","t","i","v","e">>],
    [mood |-> <<"m","e","l","a","n","c","h","o","l","y">>,
     book_query |-> <<"l","i","t","e","r","a","r","y"," ","f","i","c","t","i","o","n"," ","e","m","o","t","i","o","n","a","l">>],
    [mood |-> <<"a","d","v","e","n","t","u","r","o","u","s">>,
     book_query |-> <<"a","d","v","e","n","t","u","r","e"," ","f","a","n","t","a","s","y"," ","e","p","i","c">>] >>

\* f"AI-optimized {mood} results: {book_query}"
fmt_mood_head == <<"A","I","-","o","p","t","i","m","i","z","e","d"," ">>
fmt_mood_mid == <<" ","r","e","s","u","l","t","s",":"," ">>
\* f"AI-optimized results for: {query}"
fmt_echo_head ==
    <<"A","I","-","o","p","t","i","m","i","z","e","d"," ","r","e","s","u","l","t","s"," ","f","o","r",":"," ">>

-----------------------------------------------------------------------------
(* Python's str and truth-value operations *)

ascii_uppercase ==
    <<"A","B","C","D","E","F","G","H","I","J","K","L","M","N","O","P","Q","R","S","T","U","V","W","X","Y","Z">>
ascii_lowercase ==
    <<"a","b","c","d","e","f","g","h","i","j","k","l","m","n","o","p","q","r","s","t","u","v","w","x","y","z">>

\* str.lower() on one character
lower_char(c) ==
    IF \E i \in DOMAIN ascii_uppercase : ascii_uppercase[i] = c
    THEN ascii_lowercase[CHOOSE i \in DOMAIN ascii_uppercase : ascii_uppercase[i] = c]
    ELSE c

\* s.lower()
lower(s) == [i \in 1..Len(s) |-> lower_char(s[i])]

\* sub in s
contains(sub, s) ==
    \E i \in 1..(Len(s) - Len(sub) + 1) : SubSeq(s, i, i + Len(sub) - 1) = sub

\* bool(x) of a str, list or dict: empty is false
truthy(x) == x # <<>>

\* What a function call yields: a value, or an exception; and the analyzer
\* calls made on the way.
Return(v, cs) == [raised |-> FALSE, value |-> v, calls |-> cs]
Raise(cs) == [raised |-> TRUE, value |-> <<>>, calls |-> cs]

\* One call, as logged: what was called, with what, and how it ended.
Call(fn, args, outcome) ==
    [fn |-> fn, args |-> args, raised |-> outcome.raised, value |-> outcome.value]

-----------------------------------------------------------------------------
(* ai_service.py *)

\* description_based_analysis with the keyword tests ahead of the length
\* tests.
description_based_analysis_keywords_first(description) ==
    IF contains(kw_mystery, lower(description)) THEN MYSTERY_PHRASE
    ELSE IF contains(kw_romance, lower(description)) THEN ROMANCE_PHRASE
    ELSE IF Len(description) > LONG_DESCRIPTION THEN DEEP_PHRASE
    ELSE IF Len(description) > MEDIUM_DESCRIPTION THEN COMPELLING_PHRASE
    ELSE DEFAULT_PHRASE

\* The fallback branch of generate_book_note.
description_based_analysis(description) ==
    IF Len(description) > LONG_DESCRIPTION THEN DEEP_PHRASE
    ELSE IF Len(description) > MEDIUM_DESCRIPTION THEN COMPELLING_PHRASE
    ELSE IF contains(kw_mystery, lower(description)) THEN MYSTERY_PHRASE
    ELSE IF contains(kw_romance, lower(description)) THEN ROMANCE_PHRASE
    ELSE DEFAULT_PHRASE

\* generate_book_note without its try/except: the analyzer's exception
\* leaves the function.
generate_book_note_propagates(description, title, author, enhanced) ==
    IF ai_MOOD_ANALYSIS_AVAILABLE /\ truthy(title) /\ truthy(author)
    THEN LET c == Call("generate_enhanced_book_note",
                       <<description, title, author>>, enhanced[1])
         IN  IF ~enhanced[1].raised
             THEN Return(enhanced[1].value, <<c>>)
             ELSE Raise(<<c>>)
    ELSE Return(description_based_analysis(description), <<>>)

\* generate_book_note calling the analyzer a second time when the first
\* call raised.
generate_book_note_retries(description, title, author, enhanced) ==
    IF ai_MOOD_ANALYSIS_AVAILABLE /\ truthy(title) /\ truthy(author)
    THEN LET c1 == Call("generate_enhanced_book_note",
                        <<description, title, author>>, enhanced[1])
             c2 == Call("generate_enhanced_book_note",
                        <<description, title, author>>, enhanced[2])
         IN  IF ~enhanced[1].raised
             THEN Return(enhanced[1].value, <<c1>>)
             ELSE IF ~enhanced[2].raised
             THEN Return(enhanced[2].value, <<c1, c2>>)
             ELSE Return(description_based_analysis(description), <<c1, c2>>)
    ELSE Return(description_based_analysis(description), <<>>)

\* generate_book_note(description, title, author); enhanced[i] is what the
\* i-th call of generate_enhanced_book_note does.
generate_book_note(description, title, author, enhanced) ==
    IF ai_MOOD_ANALYSIS_AVAILABLE /\ truthy(title) /\ truthy(author)
    THEN LET c == Call("generate_enhanced_book_note",
                       <<description, title, author>>, enhanced[1])
         IN  IF ~enhanced[1].raised
             THEN Return(enhanced[1].value, <<c>>)
             ELSE Return(description_based_analysis(description), <<c>>)
    ELSE Return(description_based_analysis(description), <<>>)

\* The for loop of get_ai_recommendations from entry i of mood_queries on.
RECURSIVE mood_loop(_, _, _)
mood_loop(query, query_lower, i) ==
    IF i > Len(mood_queries)
    THEN fmt_echo_head \o query
    ELSE IF contains(mood_queries[i].mood, query_lower)
         THEN fmt_mood_head \o mood_queries[i].mood \o fmt_mood_mid
                  \o mood_queries[i].book_query
         ELSE mood_loop(query, query_lower, i + 1)

\* get_ai_recommendations echoing query_lower instead of query.
get_ai_recommendations_echoes_lower(query) ==
    Return(mood_loop(lower(query), lower(query), 1), <<>>)

\* get_ai_recommendations with the last matching entry winning.
RECURSIVE mood_loop_last(_, _, _)
mood_loop_last(query, query_lower, i) ==
    IF i < 1
    THEN fmt_echo_head \o query
    ELSE IF contains(mood_queries[i].mood, query_lower)
         THEN fmt_mood_head \o mood_queries[i].mood \o fmt_mood_mid
                  \o mood_queries[i].book_query
         ELSE mood_loop_last(query, query_lower, i - 1)

get_ai_recommendations_last_wins(query) ==
    Return(mood_loop_last(query, lower(query), Len(mood_queries)), <<>>)

\* get_ai_recommendations(query)
get_ai_recommendations(query) ==
    Return(mood_loop(query, lower(query), 1), <<>>)

\* get_book_mood_tags_safe without its try/except.
get_book_mood_tags_safe_propagates(title, author, tags) ==
    IF ai_MOOD_ANALYSIS_AVAILABLE
    THEN LET c == Call("get_book_mood_tags", <<title, author>>, tags[1])
         IN  IF ~tags[1].raised
             THEN Return(tags[1].value, <<c>>)
             ELSE Raise(<<c>>)
    ELSE Return(<<>>, <<>>)

\* get_book_mood_tags_safe(title, author); tags[i] is what the i-th call of
\* get_book_mood_tags does.
get_book_mood_tags_safe(title, author, tags) ==
    IF ai_MOOD_ANALYSIS_AVAILABLE
    THEN LET c == Call("get_book_mood_tags", <<title, author>>, tags[1])
         IN  IF ~tags[1].raised
             THEN Return(tags[1].value, <<c>>)
             ELSE Return(<<>>, <<c>>)
    ELSE Return(<<>>, <<>>)

-----------------------------------------------------------------------------
(* flask: request.json, dict.get, jsonify, and a view that raises *)

\* request.json of a body that is the JSON literal null is None
json_null == [kind |-> "null", fields |-> <<>>]
json_object(f) == [kind |-> "object", fields |-> f]

\* data.get(key, default) of a dict
get(data, key, default) ==
    IF key \in DOMAIN data.fields THEN data.fields[key] ELSE default

\* jsonify(body), status
jsonify(body, status) == [status |-> status, kind |-> "json", body |-> body]

\* An exception that leaves the view function: flask answers 500 with its
\* own error page, which is no JSON document.
unhandled(exception) ==
    [status |-> 500, kind |-> "unhandled", body |-> [exception |-> exception]]

Answer(resp, cs) == [response |-> resp, calls |-> cs]

-----------------------------------------------------------------------------
(* app.py: the view functions.  data is request.json; the last parameter   *)
(* is what the analyzer does on its successive calls.                      *)

handle_generate_note(data, enhanced) ==
    IF data.kind # "object"
    THEN Answer(unhandled("AttributeError"), <<>>)
    ELSE LET description == get(data, "description", <<>>)
             title == get(data, "title", <<>>)
             author == get(data, "author", <<>>)
             vibe == generate_book_note(description, title, author, enhanced)
             made == <<Call("generate_book_note", <<description, title, author>>,
                            vibe)>> \o vibe.calls
         IN  IF vibe.raised
             THEN Answer(unhandled("Exception"), made)
             ELSE Answer(jsonify([vibe |-> vibe.value], 200), made)

\* handle_analyze_mood testing the title ahead of the availability flag.
handle_analyze_mood_title_first(data, analysis) ==
    IF data.kind # "object"
    THEN Answer(unhandled("AttributeError"), <<>>)
    ELSE LET title == get(data, "title", <<>>)
             author == get(data, "author", <<>>)
             c == Call("analyze_book_mood", <<title, author>>, analysis[1])
         IN  IF ~truthy(title)
             THEN Answer(jsonify([error |-> "Title is required"], 400), <<>>)
             ELSE IF ~app_MOOD_ANALYSIS_AVAILABLE
             THEN Answer(jsonify([success |-> FALSE,
                                  error |-> "Mood analysis not available - missing dependencies"],
                                 503), <<>>)
             ELSE IF analysis[1].raised
             THEN Answer(jsonify([success |-> FALSE,
                                  error |-> analysis[1].message], 500), <<c>>)
             ELSE IF truthy(analysis[1].value)
             THEN Answer(jsonify([success |-> TRUE,
                                  mood_analysis |-> analysis[1].value], 200), <<c>>)
             ELSE Answer(jsonify([success |-> FALSE,
                                  error |-> "Could not analyze mood for this book"],
                                 404), <<c>>)

handle_analyze_mood(data, analysis) ==
    IF ~app_MOOD_ANALYSIS_AVAILABLE
    THEN Answer(jsonify([success |-> FALSE,
                         error |-> "Mood analysis not available - missing dependencies"],
                        503), <<>>)
    ELSE IF data.kind # "object"
    THEN Answer(unhandled("AttributeError"), <<>>)
    ELSE LET title == get(data, "title", <<>>)
             author == get(data, "author", <<>>)
             c == Call("analyze_book_mood", <<title, author>>, analysis[1])
         IN  IF ~truthy(title)
             THEN Answer(jsonify([error |-> "Title is required"], 400), <<>>)
             ELSE IF analysis[1].raised
             THEN Answer(jsonify([success |-> FALSE,
                                  error |-> analysis[1].message], 500), <<c>>)
             ELSE IF truthy(analysis[1].value)
             THEN Answer(jsonify([success |-> TRUE,
                                  mood_analysis |-> analysis[1].value], 200), <<c>>)
             ELSE Answer(jsonify([success |-> FALSE,
                                  error |-> "Could not analyze mood for this book"],
                                 404), <<c>>)

\* handle_mood_tags without the test of the title.
handle_mood_tags_no_validation(data, tags) ==
    IF data.kind # "object"
    THEN Answer(unhandled("AttributeError"), <<>>)
    ELSE LET title == get(data, "title", <<>>)
             author == get(data, "author", <<>>)
             mood_tags == get_book_mood_tags_safe(title, author, tags)
             made == <<Call("get_book_mood_tags_safe", <<title, author>>,
                            mood_tags)>> \o mood_tags.calls
         IN  IF mood_tags.raised
             THEN Answer(jsonify([success |-> FALSE, error |-> "Exception"], 500),
                         made)
             ELSE Answer(jsonify([success |-> TRUE, mood_tags |-> mood_tags.value],
                                 200), made)

handle_mood_tags(data, tags) ==
    IF data.kind # "object"
    THEN Answer(unhandled("AttributeError"), <<>>)
    ELSE LET title == get(data, "title", <<>>)
             author == get(data, "author", <<>>)
             mood_tags == get_book_mood_tags_safe(title, author, tags)
             made == <<Call("get_book_mood_tags_safe", <<title, author>>,
                            mood_tags)>> \o mood_tags.calls
         IN  IF ~truthy(title)
             THEN Answer(jsonify([error |-> "Title is required"], 400), <<>>)
             ELSE IF mood_tags.raised
             THEN Answer(jsonify([success |-> FALSE, error |-> "Exception"], 500),
                         made)
             ELSE Answer(jsonify([success |-> TRUE, mood_tags |-> mood_tags.value],
                                 200), made)

handle_mood_search(data) ==
    IF data.kind # "object"
    THEN Answer(unhandled("AttributeError"), <<>>)
    ELSE LET mood_query == get(data, "query", <<>>)
             recommendations == get_ai_recommendations(mood_query)
             made == <<Call("get_ai_recommendations", <<mood_query>>,
                            recommendations)>> \o recommendations.calls
         IN  IF ~truthy(mood_query)
             THEN Answer(jsonify([error |-> "Query is required"], 400), <<>>)
             ELSE IF recommendations.raised
             THEN Answer(jsonify([success |-> FALSE, error |-> "Exception"], 500),
                         made)
             ELSE Answer(jsonify([success |-> TRUE,
                                  recommendations |-> recommendations.value,
                                  query |-> mood_query], 200), made)

health_check ==
    Answer(jsonify([status |-> "healthy",
                    service |-> "BiblioDrift Mood Analysis API",
                    version |-> "1.0.0",
                    mood_analysis_available |-> app_MOOD_ANALYSIS_AVAILABLE], 200),
           <<>>)

-----------------------------------------------------------------------------
(* The requests and the analyzer behaviours that are drawn *)

RECURSIVE join(_)
join(chunks) == IF chunks = <<>> THEN <<>> ELSE Head(chunks) \o join(Tail(chunks))

\* Every concatenation of at most n chunks.
Texts(chunks, n) == { join(cs) : cs \in UNION { [1..k -> chunks] : k \in 0..n } }

Filler == [i \in 1..MEDIUM_DESCRIPTION |-> "x"]

DescriptionChunks ==
    { kw_mystery, <<"M","y","s","t","e","r","y">>, kw_romance,
      <<"R","O","M","A","N","C","E">>, <<"a">>, Filler }

Descriptions == Texts(DescriptionChunks, MaxDescChunks)

QueryChunks ==
    { mood_queries[i].mood : i \in DOMAIN mood_queries }
        \cup { <<"D","A","R","K">>, <<"T","e","l","l"," ","m","e"," ">>,
               <<" ","a","n","d"," ">> }

Queries == Texts(QueryChunks, MaxQueryChunks)

\* Titles and authors: "" and "Dune".
Names == { <<>>, <<"D","u","n","e">> }

\* A field of a JSON object: absent, or present with a value.
absent == [present |-> FALSE, value |-> <<>>]
Optional(values) == { absent } \cup { [present |-> TRUE, value |-> v] : v \in values }

\* The JSON object holding the fields of f that are present.
object_of(f) ==
    json_object([k \in { j \in DOMAIN f : f[j].present } |-> f[k].value])

NoteBodies ==
    { json_null } \cup
    { object_of([description |-> d, title |-> t, author |-> a]) :
        d \in Optional(Descriptions), t \in Optional(Names), a \in Optional(Names) }

BookBodies ==
    { json_null } \cup
    { object_of([title |-> t, author |-> a]) :
        t \in Optional(Names), a \in Optional(Names) }

SearchBodies ==
    { json_null } \cup { object_of([query |-> q]) : q \in Optional(Queries) }

Ok(v) == [raised |-> FALSE, value |-> v, message |-> ""]
Fails(msg) == [raised |-> TRUE, value |-> <<>>, message |-> msg]

\* generate_enhanced_book_note: raises, or returns a text (possibly "").
NoteOutcomes ==
    { Fails("scrape failed"), Ok(<<>>),
      Ok(<<"A"," ","m","o","o","d","y"," ","d","e","s","e","r","t"," ","e","p","i","c",".">>) }

\* get_book_mood_tags: raises, or returns a list of tags.
TagOutcomes ==
    { Fails("scrape failed"), Ok(<<>>), Ok(<<"cozy">>), Ok(<<"dark", "tense">>) }

\* analyze_book_mood: raises, or returns a result, possibly an empty one.
AnalysisOutcomes ==
    { Fails("scrape failed"), Ok(<<>>), Ok([primary_mood |-> "cozy"]) }

\* What the analyzer does at its first and at its second call within one
\* request; the code reads only as many as it makes calls.
Behaviours(outcomes) == outcomes \X outcomes

-----------------------------------------------------------------------------
(* The server *)

NoRequest == [endpoint |-> "none", body |-> json_null]
NoResponse == [status |-> 0, kind |-> "none", body |-> <<>>]

\* The names mood_analysis.ai_service_enhanced may export; none when the
\* package is not installed.
ENHANCED_NAMES == {"AIBookService", "get_book_mood_tags", "generate_enhanced_book_note"}

\* ai_service.py: from ... import AIBookService, get_book_mood_tags,
\* generate_enhanced_book_note
ai_service_import(exports) == ENHANCED_NAMES \subseteq exports

\* app.py: from ... import AIBookService
app_import(exports) == "AIBookService" \in exports

Init ==
    /\ \E exports \in SUBSET ENHANCED_NAMES :
         /\ ai_MOOD_ANALYSIS_AVAILABLE = ai_service_import(exports)
         /\ app_MOOD_ANALYSIS_AVAILABLE = app_import(exports)
    /\ phase = "idle"
    /\ request = NoRequest
    /\ response = NoResponse
    /\ calls = <<>>

\* Serve marking the analyzer unavailable once one of its calls raised.
Serve_disables_after_failure(endpoint, body, answer) ==
    /\ phase' = "responded"
    /\ request' = [endpoint |-> endpoint, body |-> body]
    /\ response' = answer.response
    /\ calls' = answer.calls
    /\ app_MOOD_ANALYSIS_AVAILABLE' = app_MOOD_ANALYSIS_AVAILABLE
    /\ ai_MOOD_ANALYSIS_AVAILABLE' =
           (ai_MOOD_ANALYSIS_AVAILABLE
              /\ \A i \in DOMAIN answer.calls : ~answer.calls[i].raised)

\* The request is answered by its view function; the flags are only read.
Serve(endpoint, body, answer) ==
    /\ phase' = "responded"
    /\ request' = [endpoint |-> endpoint, body |-> body]
    /\ response' = answer.response
    /\ calls' = answer.calls
    /\ UNCHANGED flags

POST_generate_note ==
    /\ phase = "idle"
    /\ \E body \in NoteBodies, enhanced \in Behaviours(NoteOutcomes) :
         Serve("generate-note", body, handle_generate_note(body, enhanced))

POST_analyze_mood ==
    /\ phase = "idle"
    /\ \E body \in BookBodies, analysis \in Behaviours(AnalysisOutcomes) :
         Serve("analyze-mood", body, handle_analyze_mood(body, analysis))

POST_mood_tags ==
    /\ phase = "idle"
    /\ \E body \in BookBodies, tags \in Behaviours(TagOutcomes) :
         Serve("mood-tags", body, handle_mood_tags(body, tags))

POST_mood_search ==
    /\ phase = "idle"
    /\ \E body \in SearchBodies :
         Serve("mood-search", body, handle_mood_search(body))

GET_health ==
    /\ phase = "idle"
    /\ Serve("health", json_null, health_check)

\* The response is sent; the server waits for the next request.
NextRequest ==
    /\ phase = "responded"
    /\ phase' = "idle"
    /\ request' = NoRequest
    /\ response' = NoResponse
    /\ calls' = <<>>
    /\ UNCHANGED flags

Next ==
    \/ POST_generate_note
    \/ POST_analyze_mood
    \/ POST_mood_tags
    \/ POST_mood_search
    \/ GET_health
    \/ NextRequest

Spec == Init /\ [][Next]_vars

-----------------------------------------------------------------------------
(* Properties *)

\* The request in hand was answered by the view function of endpoint e.
Answered(e) == phase = "responded" /\ request.endpoint = e

\* The request's body is a JSON object (data.get is defined).
HasObject == request.body.kind = "object"

\* The field of the request's JSON object, '' when it is missing.
Field(key) == get(request.body, key, <<>>)

ANALYZER_FUNCTIONS ==
    {"generate_enhanced_book_note", "get_book_mood_tags", "analyze_book_mood"}

\* The calls of the request in hand that went to the external analyzer.
AnalyzerCalls == SelectSeq(calls, LAMBDA c : c.fn \in ANALYZER_FUNCTIONS)

\* The answer is the JSON document jsonify made, with this status.
Json(status) == response.kind = "json" /\ response.status = status

\* C1: when generate_book_note's analyzer call raises, the call returns
\* normally and returns the phrase of the local heuristic for the
\* description, as it does with the analyzer absent.
C1_AnalyzerFailureFallsBack ==
    (/\ Answered("generate-note")
     /\ \E i \in DOMAIN AnalyzerCalls : AnalyzerCalls[i].raised)
    => /\ ~calls[1].raised
       /\ calls[1].fn = "generate_book_note"
       /\ calls[1].value = description_based_analysis(calls[1].args[1])
       /\ Json(200)
       /\ response.body.vibe = description_based_analysis(Field("description"))

C1_Witness ==
    /\ Answered("generate-note")
    /\ Len(AnalyzerCalls) = 1 /\ AnalyzerCalls[1].raised
    /\ Json(200)
    /\ response.body.vibe = MYSTERY_PHRASE

\* The phrase the ordered rules of the claim give a description.
C2_Phrase(d) ==
    IF Len(d) > 200 THEN DEEP_PHRASE
    ELSE IF Len(d) > 100 THEN COMPELLING_PHRASE
    ELSE IF contains(kw_mystery, lower(d)) THEN MYSTERY_PHRASE
    ELSE IF contains(kw_romance, lower(d)) THEN ROMANCE_PHRASE
    ELSE DEFAULT_PHRASE

\* The analyzer is not consulted: it is absent, or title or author is empty.
C2_NotConsulted ==
    \/ ~ai_MOOD_ANALYSIS_AVAILABLE
    \/ Field("title") = <<>>
    \/ Field("author") = <<>>

\* C2: when the analyzer is not consulted, the phrase follows the ordered
\* rules (length > 200, length > 100, 'mystery', 'romance', default), first
\* match wins; so a description over 100 characters with 'mystery' does not
\* get the mystery phrase, a short one with 'mystery' and 'romance' gets the
\* mystery phrase, and the empty one gets the default phrase.
C2_OrderedRules ==
    (Answered("generate-note") /\ HasObject /\ C2_NotConsulted)
    => LET d == Field("description")
           vibe == response.body.vibe
       IN  /\ AnalyzerCalls = <<>>
           /\ Json(200)
           /\ vibe = C2_Phrase(d)
           /\ (Len(d) > 100 /\ contains(kw_mystery, lower(d)))
                  => vibe # MYSTERY_PHRASE
           /\ (/\ Len(d) <= 100
               /\ contains(kw_mystery, lower(d))
               /\ contains(kw_romance, lower(d))) => vibe = MYSTERY_PHRASE
           /\ d = <<>> => vibe = DEFAULT_PHRASE

C2_Witness ==
    /\ Answered("generate-note") /\ HasObject /\ C2_NotConsulted
    /\ Len(Field("description")) > 100
    /\ Len(Field("description")) <= 200
    /\ contains(kw_mystery, lower(Field("description")))
    /\ response.body.vibe = COMPELLING_PHRASE

\* The 7 mood keywords in the order the claim declares.
C3_Order == <<
    <<"c","o","z","y">>,
    <<"d","a","r","k">>,
    <<"r","o","m","a","n","t","i","c">>,
    <<"m","y","s","t","e","r","i","o","u","s">>,
    <<"u","p","l","i","f","t","i","n","g">>,
    <<"m","e","l","a","n","c","h","o","l","y">>,
    <<"a","d","v","e","n","t","u","r","o","u","s">> >>

\* The expansion the table gives a mood keyword.
C3_Expansion(mood) ==
    LET i == CHOOSE j \in DOMAIN mood_queries : mood_queries[j].mood = mood
    IN  mood_queries[i].book_query

\* The position in s of the first occurrence of sub.
FirstAt(sub, s) ==
    CHOOSE i \in 1..Len(s) :
        /\ i + Len(sub) - 1 <= Len(s)
        /\ SubSeq(s, i, i + Len(sub) - 1) = sub
        /\ \A j \in 1..(i - 1) : SubSeq(s, j, j + Len(sub) - 1) # sub

\* C3: get_ai_recommendations returns 'AI-optimized {mood} results:
\* {expansion}' for the first keyword, in the order cozy, dark, romantic,
\* mysterious, uplifting, melancholy, adventurous, that is a substring of
\* the lower-cased query, wherever the keywords stand in the query.
C3_FirstInTableOrderWins ==
    (Answered("mood-search") /\ HasObject /\ Field("query") # <<>>)
    => LET q == lower(Field("query"))
       IN  \A i \in DOMAIN C3_Order :
               (/\ contains(C3_Order[i], q)
                /\ \A j \in 1..(i - 1) : ~contains(C3_Order[j], q))
               => /\ Json(200)
                  /\ response.body.recommendations =
                         fmt_mood_head \o C3_Order[i] \o fmt_mood_mid
                             \o C3_Expansion(C3_Order[i])

\* 'romantic' stands before 'dark' in the query, and dark is the answer.
C3_Witness ==
    /\ Answered("mood-search") /\ HasObject
    /\ contains(C3_Order[2], lower(Field("query")))
    /\ contains(C3_Order[3], lower(Field("query")))
    /\ FirstAt(C3_Order[3], lower(Field("query")))
           < FirstAt(C3_Order[2], lower(Field("query")))
    /\ response.body.recommendations =
           fmt_mood_head \o C3_Order[2] \o fmt_mood_mid \o C3_Expansion(C3_Order[2])

\* No mood keyword is a substring of the lower-cased text.
C4_NoKeyword(q) == \A i \in DOMAIN C3_Order : ~contains(C3_Order[i], lower(q))

\* s begins with head.
StartsWith(s, head) == Len(s) >= Len(head) /\ SubSeq(s, 1, Len(head)) = head

\* C4: a query with none of the 7 keywords in its lower-cased form gets
\* 'AI-optimized results for: ' followed by the query as given, not
\* lower-cased; and only such a query gets this echo.
C4_EchoOfOriginalQuery ==
    (Answered("mood-search") /\ HasObject /\ Field("query") # <<>>)
    => /\ Json(200)
       /\ C4_NoKeyword(Field("query"))
              => response.body.recommendations = fmt_echo_head \o Field("query")
       /\ StartsWith(response.body.recommendations, fmt_echo_head)
              => C4_NoKeyword(Field("query"))

\* A query with upper-case letters and no keyword is echoed as given.
C4_Witness ==
    /\ Answered("mood-search") /\ HasObject
    /\ Field("query") # <<>>
    /\ Field("query") # lower(Field("query"))
    /\ C4_NoKeyword(Field("query"))
    /\ response.body.recommendations = fmt_echo_head \o Field("query")

\* C5: for a mood-tags request with a non-empty title, an analyzer that is
\* absent or raises gives 200 with success true and mood_tags [], never a
\* 500; an analyzer that succeeds gives exactly the sequence it returned.
C5_MoodTagsNeverFail ==
    (Answered("mood-tags") /\ HasObject /\ Field("title") # <<>>)
    => /\ Json(200)
       /\ response.body.success = TRUE
       /\ calls # <<>> /\ calls[1].fn = "get_book_mood_tags_safe"
       /\ ~calls[1].raised
       /\ (\/ ~ai_MOOD_ANALYSIS_AVAILABLE
           \/ \E i \in DOMAIN AnalyzerCalls : AnalyzerCalls[i].raised)
              => /\ calls[1].value = <<>>
                 /\ response.body.mood_tags = <<>>
       /\ (/\ ai_MOOD_ANALYSIS_AVAILABLE
           /\ AnalyzerCalls # <<>>
           /\ ~AnalyzerCalls[1].raised)
              => response.body.mood_tags = AnalyzerCalls[1].value

\* The analyzer raised on get_mood_tags and the answer is 200 with [].
C5_Witness ==
    /\ Answered("mood-tags") /\ HasObject /\ Field("title") # <<>>
    /\ Len(AnalyzerCalls) = 1 /\ AnalyzerCalls[1].raised
    /\ Json(200)
    /\ response.body.success = TRUE
    /\ response.body.mood_tags = <<>>

C7_EveryErrorEnveloped ==
    phase = "responded"
    => /\ response.kind = "json"
       /\ response.status # 200
              => /\ response.status \in {400, 404, 500, 503}
                 /\ "success" \in DOMAIN response.body
                 /\ response.body.success = FALSE
                 /\ "error" \in DOMAIN response.body

C9_AtMostOneAnalyzerCall ==
    (Answered("generate-note") \/ Answered("mood-tags"))
    => /\ Len(AnalyzerCalls) <= 1
       /\ \A i, j \in DOMAIN AnalyzerCalls : i < j => ~AnalyzerCalls[i].raised
       /\ (Answered("generate-note") /\ AnalyzerCalls # <<>>)
              => /\ ai_MOOD_ANALYSIS_AVAILABLE
                 /\ Field("title") # <<>>
                 /\ Field("author") # <<>>
                 /\ AnalyzerCalls[1].fn = "generate_enhanced_book_note"
                 /\ ~AnalyzerCalls[1].raised
                        => /\ Json(200)
                           /\ response.body.vibe = AnalyzerCalls[1].value

\* The analyzer's text is returned where the heuristic gives another one.
C9_Witness ==
    /\ Answered("generate-note")
    /\ Len(AnalyzerCalls) = 1 /\ ~AnalyzerCalls[1].raised
    /\ response.body.vibe = AnalyzerCalls[1].value
    /\ response.body.vibe # description_based_analysis(Field("description"))

\* Whenever generate-note or mood-tags consulted the analyzer, app.py's
\* flag is set: health reports it and analyze-mood does not answer 503.
C10_Consistent ==
    /\ ((Answered("generate-note") \/ Answered("mood-tags")) /\ AnalyzerCalls # <<>>)
          => ai_MOOD_ANALYSIS_AVAILABLE /\ app_MOOD_ANALYSIS_AVAILABLE
    /\ Answered("health")
          => response.body.mood_analysis_available = app_MOOD_ANALYSIS_AVAILABLE
    /\ Answered("analyze-mood")
          => (response.status = 503 <=> ~app_MOOD_ANALYSIS_AVAILABLE)

\* C10: the two availability flags are set at startup and no request, one
\* in which the analyzer fails included, changes either; and they stay
\* consistent: whenever generate-note or mood-tags consults the analyzer,
\* health reports mood_analysis_available = true and analyze-mood does not
\* answer 503.
C10_FlagsFixedAndConsistent ==
    [][flags' = flags]_vars /\ []C10_Consistent

\* mood-tags consulted the analyzer, which failed, and app.py's flag is set.
C10_Witness ==
    /\ Answered("mood-tags")
    /\ AnalyzerCalls # <<>> /\ AnalyzerCalls[1].raised
    /\ app_MOOD_ANALYSIS_AVAILABLE

====
